---- MODULE Spec2Model ----
(***************************************************************************)
(* The on-chain settlement core of OracleMarket: the Move modules          *)
(* oracle_marketplace, marketplace_treasury and oracle_core.               *)
(*                                                                         *)
(* Every entry/public function is one action.  A call that aborts changes  *)
(* nothing but the outcome record `last` (Move aborts revert the whole     *)
(* transaction).  u64 quantities that do not fit TLC's integers (the fee   *)
(* product near 2^64, millisecond timestamps, the 30-day duration) are     *)
(* computed exactly on little-endian limb sequences in radix LimbBase.     *)
(***************************************************************************)
EXTENDS Integers, Sequences, FiniteSets, TLC

VARIABLES
    bal,        \* address -> SUI held in the address's own coins
    services,   \* sequence of OracleService objects; the index is the object id
    pool,       \* CollateralPool: service id -> locked balance (dynamic fields)
    treasury,   \* MarketplaceTreasury: platform_balance, admin
    admin_cap,  \* TreasuryAdminCap: treasury_id, owner
    subs,       \* sequence of Subscription objects
    queries,    \* sequence of OracleQuery objects
    records,    \* sequence of QueryRecord objects
    clock,      \* sui::clock timestamp_ms
    epoch_ts,   \* tx_context::epoch_timestamp_ms
    last,       \* outcome of the most recent call
    fee_arg,    \* the fee handed to the fee split (fee-split specification)
    inflight    \* transactions built off-chain, pending or executed

vars == <<bal, services, pool, treasury, admin_cap, subs, queries, records,
          clock, epoch_ts, last, fee_arg, inflight>>

-----------------------------------------------------------------------------
(* Exact unsigned arithmetic on limb sequences (least significant first,   *)
(* no high zero limb; zero is the empty sequence).                         *)

LimbBase == 10000

RECURSIVE BigOfNat(_)
BigOfNat(n) ==
    IF n = 0 THEN <<>> ELSE <<n % LimbBase>> \o BigOfNat(n \div LimbBase)

RECURSIVE NatOfBig(_)
NatOfBig(a) ==
    IF a = <<>> THEN 0 ELSE Head(a) + LimbBase * NatOfBig(Tail(a))

RECURSIVE BigTrim(_)
BigTrim(a) ==
    IF a # <<>> /\ a[Len(a)] = 0 THEN BigTrim(SubSeq(a, 1, Len(a) - 1)) ELSE a

RECURSIVE BigAddC(_, _, _)
BigAddC(a, b, c) ==
    IF a = <<>> /\ b = <<>>
    THEN IF c = 0 THEN <<>> ELSE <<c>>
    ELSE LET x == IF a = <<>> THEN 0 ELSE Head(a)
             y == IF b = <<>> THEN 0 ELSE Head(b)
             t == x + y + c
         IN  <<t % LimbBase>> \o
             BigAddC(IF a = <<>> THEN <<>> ELSE Tail(a),
                     IF b = <<>> THEN <<>> ELSE Tail(b),
                     t \div LimbBase)

BigAdd(a, b) == BigAddC(a, b, 0)

RECURSIVE BigSubB(_, _, _)
BigSubB(a, b, borrow) ==
    IF a = <<>> THEN <<>>
    ELSE LET y == IF b = <<>> THEN 0 ELSE Head(b)
             t == Head(a) - y - borrow
         IN  <<IF t < 0 THEN t + LimbBase ELSE t>> \o
             BigSubB(Tail(a), IF b = <<>> THEN <<>> ELSE Tail(b),
                     IF t < 0 THEN 1 ELSE 0)

\* a - b for a >= b
BigSub(a, b) == BigTrim(BigSubB(a, b, 0))

RECURSIVE BigMulC(_, _, _)
BigMulC(a, k, c) ==
    IF a = <<>> THEN BigOfNat(c)
    ELSE LET t == Head(a) * k + c
         IN  <<t % LimbBase>> \o BigMulC(Tail(a), k, t \div LimbBase)

\* a * k for a small factor k
BigMulSmall(a, k) == BigTrim(BigMulC(a, k, 0))

RECURSIVE BigDivR(_, _, _, _)
BigDivR(a, i, d, r) ==
    IF i = 0 THEN <<>>
    ELSE LET t == r * LimbBase + a[i]
         IN  BigDivR(a, i - 1, d, t % d) \o <<t \div d>>

\* floor(a / d) for a small divisor d (long division from the high limb)
BigDivSmall(a, d) == BigTrim(BigDivR(a, Len(a), d, 0))

RECURSIVE BigLessAt(_, _, _)
BigLessAt(a, b, i) ==
    IF i = 0 THEN FALSE
    ELSE IF a[i] # b[i] THEN a[i] < b[i] ELSE BigLessAt(a, b, i - 1)

BigLess(a, b) ==
    IF Len(a) # Len(b) THEN Len(a) < Len(b) ELSE BigLessAt(a, b, Len(a))

BigLe(a, b) == ~BigLess(b, a)

\* 2^64 - 1 = 18446744073709551615
U64_MAX == <<1615, 955, 737, 6744, 1844>>

\* Move u64 arithmetic aborts on overflow and on underflow.
U64Mul(a, k) ==
    LET p == BigMulSmall(a, k)
    IN  IF BigLess(U64_MAX, p) THEN [ok |-> FALSE, v |-> <<>>]
                               ELSE [ok |-> TRUE, v |-> p]

U64Add(a, b) ==
    LET s == BigAdd(a, b)
    IN  IF BigLess(U64_MAX, s) THEN [ok |-> FALSE, v |-> <<>>]
                               ELSE [ok |-> TRUE, v |-> s]

U64Sub(a, b) ==
    IF BigLess(a, b) THEN [ok |-> FALSE, v |-> <<>>]
                     ELSE [ok |-> TRUE, v |-> BigSub(a, b)]

-----------------------------------------------------------------------------
(* Program constants.                                                      *)

PLATFORM_FEE_BPS == 300
BPS_DENOMINATOR == 10000
MIN_COLLATERAL == 10000000

\* 30 * 24 * 60 * 60 * 1000 = 2,592,000,000 ms
DEFAULT_SUBSCRIPTION_DURATION ==
    BigMulSmall(BigMulSmall(BigMulSmall(BigMulSmall(BigOfNat(30), 24), 60), 60), 1000)

OK == "OK"
ARITHMETIC_ERROR == "ARITHMETIC_ERROR"
E_SERVICE_INACTIVE == "E_SERVICE_INACTIVE"
E_INSUFFICIENT_PAYMENT == "E_INSUFFICIENT_PAYMENT"
E_INSUFFICIENT_COLLATERAL == "E_INSUFFICIENT_COLLATERAL"
E_NOT_PROVIDER == "E_NOT_PROVIDER"
E_SUBSCRIPTION_EXPIRED == "E_SUBSCRIPTION_EXPIRED"
E_INVALID_PRICE == "E_INVALID_PRICE"
E_QUERY_NOT_RESOLVED == "E_QUERY_NOT_RESOLVED"
E_SUBSCRIPTION_NOT_MATCH == "E_SUBSCRIPTION_NOT_MATCH"
E_NOT_ADMIN == "E_NOT_ADMIN"
E_INSUFFICIENT_BALANCE == "E_INSUFFICIENT_BALANCE"
E_COLLATERAL_NOT_FOUND == "E_COLLATERAL_NOT_FOUND"
E_QUERY_ALREADY_RESOLVED == "E_QUERY_ALREADY_RESOLVED"

-----------------------------------------------------------------------------
(* The fee split of query_oracle_sync.                                     *)

\* let platform_fee = fee * PLATFORM_FEE_BPS / 10000;
\* let provider_fee = fee - platform_fee;
FeeSplit(fee) ==
    LET product == U64Mul(fee, PLATFORM_FEE_BPS)
    IN  IF ~product.ok
        THEN [err |-> ARITHMETIC_ERROR, platform_fee |-> <<>>, provider_fee |-> <<>>]
        ELSE LET platform_fee == BigDivSmall(product.v, BPS_DENOMINATOR)
                 provider_fee == U64Sub(fee, platform_fee)
             IN  IF ~provider_fee.ok
                 THEN [err |-> ARITHMETIC_ERROR, platform_fee |-> <<>>,
                       provider_fee |-> <<>>]
                 ELSE [err |-> OK, platform_fee |-> platform_fee,
                       provider_fee |-> provider_fee.v]

-----------------------------------------------------------------------------
(* Bounds and input sets.                                                  *)

MaxServices == 2
MaxSubs == 1
MaxQueries == 1
MaxRecords == 2
MaxInflight == 2

Addr == {"alice", "bob", "carol"}
TREASURY_ADMIN == "carol"
THIS_TREASURY == "treasury"
OTHER_TREASURY == "other_treasury"

InitFunds == 2 * MIN_COLLATERAL + 2002

PriceInputs == {0, 33, 1000}
CollateralInputs == {MIN_COLLATERAL - 1, MIN_COLLATERAL}
PaymentInputs == {32, 1000, 1001}
DepositInputs == {MIN_COLLATERAL}
WithdrawInputs == {MIN_COLLATERAL, MIN_COLLATERAL + 1}
TreasuryWithdrawInputs == {30, 31}
ConfigInputs == {"cfg1"}
UrlInputs == {"url1"}
QueryIdInputs == {"q1"}
DataInputs == {[result |-> "", result_hash |-> "", evidence_url |-> "e1"],
               [result |-> "r1", result_hash |-> "h1", evidence_url |-> "e2"]}

\* the instants the clock shows: the start and the two instants around the
\* end of a subscription taken at the start
StartTime == BigOfNat(1)
TimePoints ==
    {StartTime,
     BigAdd(StartTime, DEFAULT_SUBSCRIPTION_DURATION),
     BigAdd(BigAdd(StartTime, DEFAULT_SUBSCRIPTION_DURATION), BigOfNat(1))}

\* the current_time arguments handed to is_subscription_valid
ValidityInputs == TimePoints \cup {BigOfNat(0)}

\* Option<T>: <<>> is none, <<v>> is some(v)
None == <<>>
Some(v) == <<v>>

ServiceIds == 1..Len(services)
\* a value of type ID handed to the pool: the id of a service that exists or
\* of one that does not exist (yet)
AnyServiceId == 1..MaxServices
SubIds == 1..Len(subs)
QueryIds == 1..Len(queries)

NoResult == [query_id |-> "", result |-> "", result_hash |-> "", query_time |-> <<>>]

\* the outcome record of a call; every action fills the fields it has
NoCall == [op |-> "init", caller |-> "-", err |-> OK, sid |-> 0, sub |-> 0,
           qid |-> 0, amount |-> 0, to |-> "-", time |-> <<>>, coin |-> 0,
           flag |-> FALSE, data |-> "", hash |-> "", ret |-> NoResult]

-----------------------------------------------------------------------------
(* State after deployment: one shared treasury (create_treasury by the     *)
(* platform admin) and one empty collateral pool.                          *)

Init ==
    /\ bal = [a \in Addr |-> InitFunds]
    /\ services = <<>>
    /\ pool = <<>>
    /\ treasury = [platform_balance |-> 0, admin |-> TREASURY_ADMIN]
    /\ admin_cap = [treasury_id |-> THIS_TREASURY, owner |-> TREASURY_ADMIN]
    /\ subs = <<>>
    /\ queries = <<>>
    /\ records = <<>>
    /\ clock = StartTime
    /\ epoch_ts = StartTime
    /\ last = NoCall
    /\ fee_arg = <<>>
    /\ inflight = <<>>

\* dynamic_field::exists_<ID>(&pool.id, service_id)
PoolExists(sid) == sid \in DOMAIN pool

\* get_service_collateral
PoolBalance(sid) == IF PoolExists(sid) THEN pool[sid] ELSE 0

\* pool with the entry of sid set to v (dynamic_field::add / borrow_mut)
PoolPut(sid, v) == [k \in (DOMAIN pool) \cup {sid} |-> IF k = sid THEN v ELSE pool[k]]

\* who may pass an object to a call: anyone if it was shared
\* (transfer::share_object), only its owner if it was transferred to an
\* address (transfer::public_transfer)
CanPass(a, owner) == owner = "shared" \/ owner = a

-----------------------------------------------------------------------------
(* marketplace_treasury                                                    *)

\* deposit_platform_fee(treasury, payment)
TreasuryAfterDeposit(amount) ==
    [treasury EXCEPT !.platform_balance = @ + amount]

DepositPlatformFee(c, amount) ==
    /\ bal[c] >= amount
    /\ treasury' = TreasuryAfterDeposit(amount)
    /\ bal' = [bal EXCEPT ![c] = @ - amount]
    /\ last' = [NoCall EXCEPT !.op = "deposit_platform_fee", !.caller = c,
                              !.amount = amount]
    /\ UNCHANGED <<services, pool, admin_cap, subs, queries, records, clock,
                   epoch_ts, fee_arg, inflight>>

\* mutant: the capability alone is enough, the sender is not compared
WithdrawPlatformFundsError_CapOnly(c, cap_treasury_id, amount) ==
    IF THIS_TREASURY # cap_treasury_id THEN E_NOT_ADMIN
    ELSE IF ~(treasury.platform_balance >= amount) THEN E_INSUFFICIENT_BALANCE
    ELSE OK

\* withdraw_platform_funds: the three asserts, in order
WithdrawPlatformFundsError(c, cap_treasury_id, amount) ==
    IF THIS_TREASURY # cap_treasury_id THEN E_NOT_ADMIN
    ELSE IF c # treasury.admin THEN E_NOT_ADMIN
    ELSE IF ~(treasury.platform_balance >= amount) THEN E_INSUFFICIENT_BALANCE
    ELSE OK

WithdrawPlatformFunds(c, cap_treasury_id, amount) ==
    /\ cap_treasury_id = admin_cap.treasury_id => c = admin_cap.owner
    /\ LET err == WithdrawPlatformFundsError(c, cap_treasury_id, amount)
       IN  /\ last' = [NoCall EXCEPT !.op = "withdraw_platform_funds", !.caller = c,
                                     !.err = err, !.amount = amount,
                                     !.data = cap_treasury_id,
                                     !.coin = IF err = OK THEN amount ELSE 0]
           /\ IF err = OK
              THEN /\ treasury' = [treasury EXCEPT !.platform_balance = @ - amount]
                   /\ bal' = [bal EXCEPT ![c] = @ + amount]
              ELSE UNCHANGED <<treasury, bal>>
    /\ UNCHANGED <<services, pool, admin_cap, subs, queries, records, clock,
                   epoch_ts, fee_arg, inflight>>

\* transfer_admin_cap(admin_cap, recipient): the capability is passed by
\* value, which only its owner can do; treasury.admin is not touched
TransferAdminCap(c, recipient) ==
    /\ c = admin_cap.owner
    /\ admin_cap' = [admin_cap EXCEPT !.owner = recipient]
    /\ last' = [NoCall EXCEPT !.op = "transfer_admin_cap", !.caller = c,
                              !.to = recipient]
    /\ UNCHANGED <<bal, services, pool, treasury, subs, queries, records, clock,
                   epoch_ts, fee_arg, inflight>>

\* mutant: an existing entry is replaced by the deposit, not joined with it
PoolAfterDeposit_Overwrite(sid, amount) == PoolPut(sid, amount)

\* deposit_collateral(pool, service_id, collateral)
PoolAfterDeposit(sid, amount) ==
    IF PoolExists(sid) THEN PoolPut(sid, pool[sid] + amount)
                       ELSE PoolPut(sid, amount)

DepositCollateral(c, sid, amount) ==
    /\ bal[c] >= amount
    /\ pool' = PoolAfterDeposit(sid, amount)
    /\ bal' = [bal EXCEPT ![c] = @ - amount]
    /\ last' = [NoCall EXCEPT !.op = "deposit_collateral", !.caller = c,
                              !.sid = sid, !.amount = amount]
    /\ UNCHANGED <<services, treasury, admin_cap, subs, queries, records, clock,
                   epoch_ts, fee_arg, inflight>>

\* mutant: the assert on the current amount is missing
WithdrawCollateralError_NoBalanceCheck(c, sid, provider, amount) ==
    IF ~PoolExists(sid) THEN E_COLLATERAL_NOT_FOUND
    ELSE IF c # provider THEN E_NOT_PROVIDER
    ELSE OK

\* withdraw_collateral(pool, service_id, provider, amount, ctx): the asserts
WithdrawCollateralError(c, sid, provider, amount) ==
    IF ~PoolExists(sid) THEN E_COLLATERAL_NOT_FOUND
    ELSE IF c # provider THEN E_NOT_PROVIDER
    ELSE IF ~(pool[sid] >= amount) THEN E_INSUFFICIENT_BALANCE
    ELSE OK

-----------------------------------------------------------------------------
(* oracle_marketplace: service management                                  *)

\* the OracleService built by both creation paths (name, service_type,
\* description and created_at are written once and never read: left out)
NewService(c, price, collateral_amount, owner) ==
    [provider |-> c, price_per_query |-> price, collateral |-> collateral_amount,
     total_queries |-> 0, successful_queries |-> 0, config_id |-> None,
     documentation_url |-> None, active |-> TRUE, owner |-> owner]

\* mutant: the collateral is checked before the price
CreateServiceError_CollateralFirst(price, collateral_amount) ==
    IF ~(collateral_amount >= MIN_COLLATERAL) THEN E_INSUFFICIENT_COLLATERAL
    ELSE IF ~(price > 0) THEN E_INVALID_PRICE
    ELSE OK

\* mutant: the minimum itself is refused
CreateServiceError_StrictFloor(price, collateral_amount) ==
    IF ~(price > 0) THEN E_INVALID_PRICE
    ELSE IF ~(collateral_amount > MIN_COLLATERAL) THEN E_INSUFFICIENT_COLLATERAL
    ELSE OK

\* the two asserts that open create_service_simple and create_service_with_pool
CreateServiceError(price, collateral_amount) ==
    IF ~(price > 0) THEN E_INVALID_PRICE
    ELSE IF ~(collateral_amount >= MIN_COLLATERAL) THEN E_INSUFFICIENT_COLLATERAL
    ELSE OK

\* create_service_simple: the collateral coin goes back to the sender, the
\* service is shared
CreateServiceSimple(c, price, collateral) ==
    /\ Len(services) < MaxServices
    /\ bal[c] >= collateral
    /\ LET err == CreateServiceError(price, collateral)
       IN  /\ last' = [NoCall EXCEPT !.op = "create_service_simple", !.caller = c,
                                     !.err = err, !.amount = price,
                                     !.coin = collateral,
                                     !.sid = IF err = OK THEN Len(services) + 1 ELSE 0]
           /\ services' = IF err = OK
                          THEN Append(services, NewService(c, price, collateral, "shared"))
                          ELSE services
    /\ UNCHANGED <<bal, pool, treasury, admin_cap, subs, queries, records, clock,
                   epoch_ts, fee_arg, inflight>>

\* create_service_entry = create_service_with_pool + public_transfer to the sender
CreateServiceEntry(c, price, collateral) ==
    /\ Len(services) < MaxServices
    /\ bal[c] >= collateral
    /\ LET err == CreateServiceError(price, collateral)
           sid == Len(services) + 1
       IN  /\ last' = [NoCall EXCEPT !.op = "create_service_entry", !.caller = c,
                                     !.err = err, !.amount = price,
                                     !.coin = collateral,
                                     !.sid = IF err = OK THEN sid ELSE 0]
           /\ IF err = OK
              THEN /\ services' = Append(services, NewService(c, price, collateral, c))
                   /\ pool' = PoolAfterDeposit(sid, collateral)
                   /\ bal' = [bal EXCEPT ![c] = @ - collateral]
              ELSE UNCHANGED <<services, pool, bal>>
    /\ UNCHANGED <<treasury, admin_cap, subs, queries, records, clock, epoch_ts,
                   fee_arg, inflight>>

\* withdraw_collateral_entry: the provider check, then the pool's own asserts
WithdrawCollateralEntryError(c, sid, amount) ==
    IF c # services[sid].provider THEN E_NOT_PROVIDER
    ELSE WithdrawCollateralError(c, sid, services[sid].provider, amount)

\* mutant: the withdrawn amount is taken off service.collateral as well
WithdrawCollateralEntry_Recorded(c, sid, amount, recipient) ==
    /\ LET err == WithdrawCollateralEntryError(c, sid, amount)
       IN  /\ last' = [NoCall EXCEPT !.op = "withdraw_collateral_entry",
                                     !.caller = c, !.err = err, !.sid = sid,
                                     !.amount = amount, !.to = recipient]
           /\ IF err = OK
              THEN /\ pool' = PoolPut(sid, pool[sid] - amount)
                   /\ bal' = [bal EXCEPT ![recipient] = @ + amount]
                   /\ services' = [services EXCEPT ![sid].collateral = @ - amount]
              ELSE UNCHANGED <<pool, bal, services>>
    /\ UNCHANGED <<treasury, admin_cap, subs, queries, records, clock,
                   epoch_ts, fee_arg, inflight>>

\* withdraw_collateral_entry(service, pool, amount, recipient)
WithdrawCollateralEntry(c, sid, amount, recipient) ==
    /\ LET err == WithdrawCollateralEntryError(c, sid, amount)
       IN  /\ last' = [NoCall EXCEPT !.op = "withdraw_collateral_entry",
                                     !.caller = c, !.err = err, !.sid = sid,
                                     !.amount = amount, !.to = recipient]
           /\ IF err = OK
              THEN /\ pool' = PoolPut(sid, pool[sid] - amount)
                   /\ bal' = [bal EXCEPT ![recipient] = @ + amount]
              ELSE UNCHANGED <<pool, bal>>
    /\ UNCHANGED <<services, treasury, admin_cap, subs, queries, records, clock,
                   epoch_ts, fee_arg, inflight>>

\* mutant: the assert on new_price is missing
UpdatePriceError_NoPriceCheck(c, sid, new_price) ==
    IF c # services[sid].provider THEN E_NOT_PROVIDER ELSE OK

\* update_price_entry
UpdatePriceError(c, sid, new_price) ==
    IF c # services[sid].provider THEN E_NOT_PROVIDER
    ELSE IF ~(new_price > 0) THEN E_INVALID_PRICE
    ELSE OK

UpdatePriceEntry(c, sid, new_price) ==
    /\ LET err == UpdatePriceError(c, sid, new_price)
       IN  /\ last' = [NoCall EXCEPT !.op = "update_price_entry", !.caller = c,
                                     !.err = err, !.sid = sid, !.amount = new_price]
           /\ services' = IF err = OK
                          THEN [services EXCEPT ![sid].price_per_query = new_price]
                          ELSE services
    /\ UNCHANGED <<bal, pool, treasury, admin_cap, subs, queries, records, clock,
                   epoch_ts, fee_arg, inflight>>

\* mutant: the assert on the sender is missing
ProviderGateError_Open(c, sid) == OK

\* the assert shared by set_active_entry, update_config_id_entry and
\* update_documentation_url_entry
ProviderGateError(c, sid) ==
    IF c # services[sid].provider THEN E_NOT_PROVIDER ELSE OK

\* mutant: the flag can be switched off but not on again
SetActiveEntry_OffOnly(c, sid, active) ==
    /\ LET err == ProviderGateError(c, sid)
       IN  /\ last' = [NoCall EXCEPT !.op = "set_active_entry", !.caller = c,
                                     !.err = err, !.sid = sid, !.flag = active]
           /\ services' = IF err = OK
                          THEN [services EXCEPT ![sid].active = @ /\ active]
                          ELSE services
    /\ UNCHANGED <<bal, pool, treasury, admin_cap, subs, queries, records, clock,
                   epoch_ts, fee_arg, inflight>>

\* set_active_entry(service, active)
SetActiveEntry(c, sid, active) ==
    /\ LET err == ProviderGateError(c, sid)
       IN  /\ last' = [NoCall EXCEPT !.op = "set_active_entry", !.caller = c,
                                     !.err = err, !.sid = sid, !.flag = active]
           /\ services' = IF err = OK
                          THEN [services EXCEPT ![sid].active = active]
                          ELSE services
    /\ UNCHANGED <<bal, pool, treasury, admin_cap, subs, queries, records, clock,
                   epoch_ts, fee_arg, inflight>>

UpdateConfigIdEntry(c, sid, config_id) ==
    /\ LET err == ProviderGateError(c, sid)
       IN  /\ last' = [NoCall EXCEPT !.op = "update_config_id_entry", !.caller = c,
                                     !.err = err, !.sid = sid, !.data = config_id]
           /\ services' = IF err = OK
                          THEN [services EXCEPT ![sid].config_id = Some(config_id)]
                          ELSE services
    /\ UNCHANGED <<bal, pool, treasury, admin_cap, subs, queries, records, clock,
                   epoch_ts, fee_arg, inflight>>

UpdateDocumentationUrlEntry(c, sid, url) ==
    /\ LET err == ProviderGateError(c, sid)
       IN  /\ last' = [NoCall EXCEPT !.op = "update_documentation_url_entry",
                                     !.caller = c, !.err = err, !.sid = sid,
                                     !.data = url]
           /\ services' = IF err = OK
                          THEN [services EXCEPT ![sid].documentation_url = Some(url)]
                          ELSE services
    /\ UNCHANGED <<bal, pool, treasury, admin_cap, subs, queries, records, clock,
                   epoch_ts, fee_arg, inflight>>

-----------------------------------------------------------------------------
(* oracle_marketplace: subscriptions                                       *)

\* mutant: the assert on service.active is missing
CreateSubscriptionError_NoActiveCheck(sid) ==
    IF ~U64Add(epoch_ts, DEFAULT_SUBSCRIPTION_DURATION).ok THEN ARITHMETIC_ERROR
    ELSE OK

\* create_subscription: the assert, then start_time + DEFAULT_SUBSCRIPTION_DURATION
CreateSubscriptionError(sid) ==
    IF ~services[sid].active THEN E_SERVICE_INACTIVE
    ELSE IF ~U64Add(epoch_ts, DEFAULT_SUBSCRIPTION_DURATION).ok THEN ARITHMETIC_ERROR
    ELSE OK

NewSubscription(c, sid) ==
    [subscriber |-> c, service_id |-> sid, start_time |-> epoch_ts,
     end_time |-> U64Add(epoch_ts, DEFAULT_SUBSCRIPTION_DURATION).v,
     active |-> TRUE, created_at |-> epoch_ts, owner |-> c]

CreateSubscriptionEntry(c, sid) ==
    /\ Len(subs) < MaxSubs
    /\ LET err == CreateSubscriptionError(sid)
       IN  /\ last' = [NoCall EXCEPT !.op = "create_subscription_entry",
                                     !.caller = c, !.err = err, !.sid = sid,
                                     !.sub = IF err = OK THEN Len(subs) + 1 ELSE 0]
           /\ subs' = IF err = OK THEN Append(subs, NewSubscription(c, sid)) ELSE subs
    /\ UNCHANGED <<bal, services, pool, treasury, admin_cap, queries, records,
                   clock, epoch_ts, fee_arg, inflight>>

\* mutant: the end instant itself is already expired
is_subscription_valid_Strict(subscription, current_time) ==
    subscription.active /\ BigLess(current_time, subscription.end_time)

\* is_subscription_valid(subscription, current_time)
is_subscription_valid(subscription, current_time) ==
    subscription.active /\ BigLe(current_time, subscription.end_time)

IsSubscriptionValid(c, u, t) ==
    /\ last' = [NoCall EXCEPT !.op = "is_subscription_valid", !.caller = c,
                              !.sub = u, !.time = t,
                              !.flag = is_subscription_valid(subs[u], t)]
    /\ UNCHANGED <<bal, services, pool, treasury, admin_cap, subs, queries,
                   records, clock, epoch_ts, fee_arg, inflight>>

-----------------------------------------------------------------------------
(* oracle_core                                                             *)

\* create_query: an open query without result
NewQuery(c, query_id, provider) ==
    [query_id |-> query_id, provider |-> provider, result |-> None,
     result_hash |-> None, evidence_url |-> None, creator |-> c,
     created_at |-> epoch_ts, updated_at |-> epoch_ts, resolved |-> FALSE,
     owner |-> c]

CreateQueryEntry(c, query_id, provider) ==
    /\ Len(queries) < MaxQueries
    /\ queries' = Append(queries, NewQuery(c, query_id, provider))
    /\ last' = [NoCall EXCEPT !.op = "create_query_entry", !.caller = c,
                              !.qid = Len(queries) + 1, !.to = provider]
    /\ UNCHANGED <<bal, services, pool, treasury, admin_cap, subs, records, clock,
                   epoch_ts, fee_arg, inflight>>

\* mutant: the submitted result is stored as it comes
NormalizeResult_Raw(result) == result

\* if (vector::length(&result) == 0) "{}" else result
NormalizeResult(result) == IF result = "" THEN "{}" ELSE result

\* if (vector::length(&result_hash) == 0) "" else result_hash
NormalizeHash(result_hash) == IF result_hash = "" THEN "" ELSE result_hash

\* mutant: the result is stored but the resolved flag is not set
QueryWithData_FlagKept(query, d) ==
    [query EXCEPT !.result = Some(NormalizeResult(d.result)),
                  !.result_hash = Some(NormalizeHash(d.result_hash)),
                  !.evidence_url = Some(d.evidence_url),
                  !.updated_at = epoch_ts]

\* the five assignments that end resolve_query_entry and update_query_data
QueryWithData(query, d) ==
    [query EXCEPT !.result = Some(NormalizeResult(d.result)),
                  !.result_hash = Some(NormalizeHash(d.result_hash)),
                  !.evidence_url = Some(d.evidence_url),
                  !.resolved = TRUE,
                  !.updated_at = epoch_ts]

\* mutant: the assert on query.resolved is missing
ResolveQueryError_NoGuard(c, q) ==
    IF c # queries[q].provider THEN E_NOT_PROVIDER ELSE OK

\* resolve_query_entry: the two asserts, in order
ResolveQueryError(c, q) ==
    IF ~(~queries[q].resolved) THEN E_QUERY_ALREADY_RESOLVED
    ELSE IF c # queries[q].provider THEN E_NOT_PROVIDER
    ELSE OK

\* the transaction itself
ResolveQueryEntryTx(c, q, d) ==
    /\ LET err == ResolveQueryError(c, q)
       IN  /\ last' = [NoCall EXCEPT !.op = "resolve_query_entry", !.caller = c,
                                     !.err = err, !.qid = q, !.data = d.result,
                                     !.hash = d.result_hash]
           /\ queries' = IF err = OK
                         THEN [queries EXCEPT ![q] = QueryWithData(@, d)]
                         ELSE queries
    /\ UNCHANGED <<bal, services, pool, treasury, admin_cap, subs, records, clock,
                   epoch_ts, fee_arg>>

\* resolve_query_entry called in a transaction built and executed at once
ResolveQueryEntry(c, q, d) ==
    /\ ResolveQueryEntryTx(c, q, d)
    /\ UNCHANGED inflight

\* mutant: the assert on the sender is missing
UpdateQueryError_Open(c, q) == OK

\* update_query_data: the one assert
UpdateQueryError(c, q) ==
    IF c # queries[q].provider THEN E_NOT_PROVIDER ELSE OK

\* the transaction itself
UpdateQueryDataTx(c, q, d) ==
    /\ LET err == UpdateQueryError(c, q)
       IN  /\ last' = [NoCall EXCEPT !.op = "update_query_data", !.caller = c,
                                     !.err = err, !.qid = q, !.data = d.result,
                                     !.hash = d.result_hash]
           /\ queries' = IF err = OK
                         THEN [queries EXCEPT ![q] = QueryWithData(@, d)]
                         ELSE queries
    /\ UNCHANGED <<bal, services, pool, treasury, admin_cap, subs, records, clock,
                   epoch_ts, fee_arg>>

\* update_query_data called in a transaction built and executed at once
UpdateQueryData(c, q, d) ==
    /\ UpdateQueryDataTx(c, q, d)
    /\ UNCHANGED inflight

\* transfer_query(query, recipient): the query is passed by value, which
\* only its owner can do
TransferQuery(c, q, recipient) ==
    /\ c = queries[q].owner
    /\ queries' = [queries EXCEPT ![q].owner = recipient]
    /\ last' = [NoCall EXCEPT !.op = "transfer_query", !.caller = c, !.qid = q,
                              !.to = recipient]
    /\ UNCHANGED <<bal, services, pool, treasury, admin_cap, subs, records, clock,
                   epoch_ts, fee_arg, inflight>>

-----------------------------------------------------------------------------
(* oracle_marketplace: settlement                                          *)

\* mutant: the assert on oracle_core::is_resolved is missing
SettleError_NoResolvedCheck(c, sid, u, q, payment_amount) ==
    IF ~services[sid].active THEN E_SERVICE_INACTIVE
    ELSE IF ~subs[u].active THEN E_SUBSCRIPTION_EXPIRED
    ELSE IF ~BigLe(clock, subs[u].end_time) THEN E_SUBSCRIPTION_EXPIRED
    ELSE IF subs[u].service_id # sid THEN E_SUBSCRIPTION_NOT_MATCH
    ELSE IF c # subs[u].subscriber THEN E_SUBSCRIPTION_EXPIRED
    ELSE IF ~(payment_amount >= services[sid].price_per_query)
         THEN E_INSUFFICIENT_PAYMENT
    ELSE OK

\* mutant: the payment is verified before the subscription
SettleError_PaymentFirst(c, sid, u, q, payment_amount) ==
    IF ~services[sid].active THEN E_SERVICE_INACTIVE
    ELSE IF ~(payment_amount >= services[sid].price_per_query)
         THEN E_INSUFFICIENT_PAYMENT
    ELSE IF ~subs[u].active THEN E_SUBSCRIPTION_EXPIRED
    ELSE IF ~BigLe(clock, subs[u].end_time) THEN E_SUBSCRIPTION_EXPIRED
    ELSE IF subs[u].service_id # sid THEN E_SUBSCRIPTION_NOT_MATCH
    ELSE IF c # subs[u].subscriber THEN E_SUBSCRIPTION_EXPIRED
    ELSE IF ~queries[q].resolved THEN E_QUERY_NOT_RESOLVED
    ELSE OK

\* mutant: a seventh assert binds the query to the service's provider
SettleError_QueryBound(c, sid, u, q, payment_amount) ==
    IF ~services[sid].active THEN E_SERVICE_INACTIVE
    ELSE IF ~subs[u].active THEN E_SUBSCRIPTION_EXPIRED
    ELSE IF ~BigLe(clock, subs[u].end_time) THEN E_SUBSCRIPTION_EXPIRED
    ELSE IF subs[u].service_id # sid THEN E_SUBSCRIPTION_NOT_MATCH
    ELSE IF c # subs[u].subscriber THEN E_SUBSCRIPTION_EXPIRED
    ELSE IF ~(payment_amount >= services[sid].price_per_query)
         THEN E_INSUFFICIENT_PAYMENT
    ELSE IF ~queries[q].resolved THEN E_QUERY_NOT_RESOLVED
    ELSE IF queries[q].provider # services[sid].provider THEN E_NOT_PROVIDER
    ELSE OK

\* the six asserts of query_oracle_sync, in the order of the code
SettleError(c, sid, u, q, payment_amount) ==
    IF ~services[sid].active THEN E_SERVICE_INACTIVE
    ELSE IF ~subs[u].active THEN E_SUBSCRIPTION_EXPIRED
    ELSE IF ~BigLe(clock, subs[u].end_time) THEN E_SUBSCRIPTION_EXPIRED
    ELSE IF subs[u].service_id # sid THEN E_SUBSCRIPTION_NOT_MATCH
    ELSE IF c # subs[u].subscriber THEN E_SUBSCRIPTION_EXPIRED
    ELSE IF ~(payment_amount >= services[sid].price_per_query)
         THEN E_INSUFFICIENT_PAYMENT
    ELSE IF ~queries[q].resolved THEN E_QUERY_NOT_RESOLVED
    ELSE OK

\* mutant: the provider is sent the whole fee coin, the platform fee is not
\* split off it
BalAfterSettle_WholeFee(c, provider, fee, platform_fee) ==
    [bal EXCEPT ![c] = @ - fee, ![provider] = @ + fee]

\* coin::split(payment, fee), coin::split(&mut fee_coin, platform_fee) and
\* public_transfer(fee_coin, service.provider)
BalAfterSettle(c, provider, fee, platform_fee) ==
    [bal EXCEPT ![c] = @ - fee, ![provider] = @ + (fee - platform_fee)]

\* mutant: successful_queries is not incremented
ServiceAfterSettle_TotalOnly(service) ==
    [service EXCEPT !.total_queries = @ + 1]

\* mutant: a settled service is switched off
ServiceAfterSettle_Deactivated(service) ==
    [service EXCEPT !.total_queries = @ + 1, !.successful_queries = @ + 1,
                    !.active = FALSE]

\* service.total_queries + 1, service.successful_queries + 1
\* mutant: the counters are written, not incremented
ServiceAfterSettle_Written(service) ==
    [service EXCEPT !.total_queries = 1, !.successful_queries = 1]

ServiceAfterSettle(service) ==
    [service EXCEPT !.total_queries = @ + 1, !.successful_queries = @ + 1]

\* the QueryRecord handed to the subscriber
\* mutant: the record is stamped with the epoch's start, not the clock
NewQueryRecord_EpochTime(sid, u, q, fee) ==
    [query_id |-> queries[q].query_id, service_id |-> sid,
     requester |-> subs[u].subscriber, payment |-> fee, query_time |-> epoch_ts,
     success |-> TRUE, owner |-> subs[u].subscriber]

NewQueryRecord(sid, u, q, fee) ==
    [query_id |-> queries[q].query_id, service_id |-> sid,
     requester |-> subs[u].subscriber, payment |-> fee, query_time |-> clock,
     success |-> TRUE, owner |-> subs[u].subscriber]

\* the OracleQueryResult returned to the calling contract
QueryResultView(q) ==
    [query_id |-> queries[q].query_id,
     result |-> IF queries[q].result # None THEN queries[q].result[1] ELSE "{}",
     result_hash |-> IF queries[q].result_hash # None
                     THEN queries[q].result_hash[1] ELSE "",
     query_time |-> clock]

\* mutant: a successful settlement uses the subscription up
QueryOracleSyncTx_SingleUse(c, sid, u, q, payment_amount) ==
    /\ Len(records) < MaxRecords
    /\ bal[c] >= payment_amount
    /\ LET pre == SettleError(c, sid, u, q, payment_amount)
           fee == services[sid].price_per_query
           split == FeeSplit(BigOfNat(fee))
           err == IF pre # OK THEN pre ELSE split.err
           platform_fee == NatOfBig(split.platform_fee)
       IN  /\ last' = [NoCall EXCEPT !.op = "query_oracle_sync", !.caller = c,
                                     !.err = err, !.sid = sid, !.sub = u, !.qid = q,
                                     !.amount = payment_amount,
                                     !.coin = IF err = OK THEN payment_amount - fee
                                              ELSE payment_amount,
                                     !.ret = IF err = OK THEN QueryResultView(q)
                                             ELSE NoResult]
           /\ IF err = OK
              THEN /\ bal' = BalAfterSettle(c, services[sid].provider, fee, platform_fee)
                   /\ treasury' = TreasuryAfterDeposit(platform_fee)
                   /\ services' = [services EXCEPT ![sid] = ServiceAfterSettle(@)]
                   /\ records' = Append(records, NewQueryRecord(sid, u, q, fee))
                   /\ subs' = [subs EXCEPT ![u].active = FALSE]
              ELSE UNCHANGED <<bal, treasury, services, records, subs>>
    /\ UNCHANGED <<pool, admin_cap, queries, clock, epoch_ts, fee_arg>>

\* the transaction itself
QueryOracleSyncTx(c, sid, u, q, payment_amount) ==
    /\ Len(records) < MaxRecords
    /\ bal[c] >= payment_amount
    /\ LET pre == SettleError(c, sid, u, q, payment_amount)
           fee == services[sid].price_per_query
           split == FeeSplit(BigOfNat(fee))
           err == IF pre # OK THEN pre ELSE split.err
           platform_fee == NatOfBig(split.platform_fee)
       IN  /\ last' = [NoCall EXCEPT !.op = "query_oracle_sync", !.caller = c,
                                     !.err = err, !.sid = sid, !.sub = u, !.qid = q,
                                     !.amount = payment_amount,
                                     !.coin = IF err = OK THEN payment_amount - fee
                                              ELSE payment_amount,
                                     !.ret = IF err = OK THEN QueryResultView(q)
                                             ELSE NoResult]
           /\ IF err = OK
              THEN /\ bal' = BalAfterSettle(c, services[sid].provider, fee, platform_fee)
                   /\ treasury' = TreasuryAfterDeposit(platform_fee)
                   /\ services' = [services EXCEPT ![sid] = ServiceAfterSettle(@)]
                   /\ records' = Append(records, NewQueryRecord(sid, u, q, fee))
              ELSE UNCHANGED <<bal, treasury, services, records>>
    /\ UNCHANGED <<pool, admin_cap, subs, queries, clock, epoch_ts, fee_arg>>

\* query_oracle_sync called in a transaction built and executed at once
QueryOracleSync(c, sid, u, q, payment_amount) ==
    /\ QueryOracleSyncTx(c, sid, u, q, payment_amount)
    /\ UNCHANGED inflight

-----------------------------------------------------------------------------
(* Transactions in flight.  A transaction is built off-chain from what its *)
(* sender observes, and executed later, whole, at the place the ledger     *)
(* gives it among the other transactions on the same shared objects.       *)

\* the data of a transaction that submits none
NoData == [result |-> "", result_hash |-> "", evidence_url |-> ""]

PendingTxs == {i \in 1..Len(inflight) : inflight[i].status = "pending"}

\* a built transaction; seen is what the sender observed, rivals the
\* transactions that were pending when it was built
NewTx(op, c, sid, u, q, amount, d, seen) ==
    [op |-> op, caller |-> c, sid |-> sid, sub |-> u, qid |-> q, amount |-> amount,
     data |-> d, seen |-> seen, rivals |-> PendingTxs, status |-> "pending",
     err |-> OK]

\* a settlement is built while the service shows these counters and funds
IssueSettlement(c, sid, u, q, payment_amount) ==
    /\ Len(inflight) < MaxInflight
    /\ inflight' = Append(inflight,
          NewTx("query_oracle_sync", c, sid, u, q, payment_amount, NoData,
                [total_queries |-> services[sid].total_queries,
                 successful_queries |-> services[sid].successful_queries,
                 platform_balance |-> treasury.platform_balance,
                 bal |-> bal, records |-> Len(records)]))
    /\ last' = [NoCall EXCEPT !.op = "issue", !.caller = c, !.sid = sid, !.sub = u,
                              !.qid = q, !.amount = payment_amount]
    /\ UNCHANGED <<bal, services, pool, treasury, admin_cap, subs, queries, records,
                   clock, epoch_ts, fee_arg>>

\* the ledger executes a pending settlement
ExecuteSettlement(i) ==
    /\ i \in PendingTxs
    /\ inflight[i].op = "query_oracle_sync"
    /\ QueryOracleSyncTx(inflight[i].caller, inflight[i].sid, inflight[i].sub,
                         inflight[i].qid, inflight[i].amount)
    /\ inflight' = [inflight EXCEPT ![i].status = "done", ![i].err = last'.err]

\* Submission of oracle data: the sender reads the query object, then builds
\* update_query_data if it shows resolved and resolve_query_entry if not
SubmitOp(observed_resolved) ==
    IF observed_resolved THEN "update_query_data" ELSE "resolve_query_entry"

IssueSubmission(c, q, d) ==
    /\ Len(inflight) < MaxInflight
    /\ inflight' = Append(inflight,
          NewTx(SubmitOp(queries[q].resolved = TRUE), c, 0, 0, q, 0, d,
                [resolved |-> queries[q].resolved]))
    /\ last' = [NoCall EXCEPT !.op = "issue", !.caller = c, !.qid = q,
                              !.data = d.result, !.hash = d.result_hash]
    /\ UNCHANGED <<bal, services, pool, treasury, admin_cap, subs, queries, records,
                   clock, epoch_ts, fee_arg>>

\* the ledger executes a pending submission
ExecuteSubmission(i) ==
    /\ i \in PendingTxs
    /\ inflight[i].op \in {"resolve_query_entry", "update_query_data"}
    /\ IF inflight[i].op = "resolve_query_entry"
       THEN ResolveQueryEntryTx(inflight[i].caller, inflight[i].qid, inflight[i].data)
       ELSE UpdateQueryDataTx(inflight[i].caller, inflight[i].qid, inflight[i].data)
    /\ inflight' = [inflight EXCEPT ![i].status = "done", ![i].err = last'.err]

-----------------------------------------------------------------------------
(* The ledger: the clock only moves forward; a new epoch starts at the     *)
(* clock's instant, so epoch_timestamp_ms never exceeds the clock.         *)

Tick(t) ==
    /\ BigLess(clock, t)
    /\ clock' = t
    /\ last' = [NoCall EXCEPT !.op = "tick", !.time = t]
    /\ UNCHANGED <<bal, services, pool, treasury, admin_cap, subs, queries,
                   records, epoch_ts, fee_arg, inflight>>

NewEpoch ==
    /\ epoch_ts # clock
    /\ epoch_ts' = clock
    /\ last' = [NoCall EXCEPT !.op = "new_epoch", !.time = clock]
    /\ UNCHANGED <<bal, services, pool, treasury, admin_cap, subs, queries,
                   records, clock, fee_arg, inflight>>

-----------------------------------------------------------------------------

(* The whole program: every operation, every caller.                       *)

Next ==
    \/ \E c \in Addr, a \in DepositInputs : DepositPlatformFee(c, a)
    \/ \E c \in Addr, t \in {THIS_TREASURY, OTHER_TREASURY}, a \in TreasuryWithdrawInputs :
          WithdrawPlatformFunds(c, t, a)
    \/ \E c \in Addr, r \in Addr : TransferAdminCap(c, r)
    \/ \E c \in Addr, sid \in AnyServiceId, a \in DepositInputs :
          DepositCollateral(c, sid, a)
    \/ \E c \in Addr, p \in PriceInputs, a \in CollateralInputs :
          CreateServiceSimple(c, p, a)
    \/ \E c \in Addr, p \in PriceInputs, a \in CollateralInputs :
          CreateServiceEntry(c, p, a)
    \/ \E c \in Addr, sid \in ServiceIds, a \in WithdrawInputs, r \in Addr :
          WithdrawCollateralEntry(c, sid, a, r)
    \/ \E c \in Addr, sid \in ServiceIds, p \in PriceInputs :
          UpdatePriceEntry(c, sid, p)
    \/ \E c \in Addr, sid \in ServiceIds, b \in BOOLEAN : SetActiveEntry(c, sid, b)
    \/ \E c \in Addr, sid \in ServiceIds, x \in ConfigInputs :
          UpdateConfigIdEntry(c, sid, x)
    \/ \E c \in Addr, sid \in ServiceIds, x \in UrlInputs :
          UpdateDocumentationUrlEntry(c, sid, x)
    \/ \E c \in Addr, sid \in ServiceIds : CreateSubscriptionEntry(c, sid)
    \/ \E c \in Addr, u \in SubIds, t \in ValidityInputs : IsSubscriptionValid(c, u, t)
    \/ \E c \in Addr, x \in QueryIdInputs, p \in Addr : CreateQueryEntry(c, x, p)
    \/ \E c \in Addr, q \in QueryIds, d \in DataInputs : ResolveQueryEntry(c, q, d)
    \/ \E c \in Addr, q \in QueryIds, d \in DataInputs : UpdateQueryData(c, q, d)
    \/ \E c \in Addr, q \in QueryIds, r \in Addr : TransferQuery(c, q, r)
    \/ \E c \in Addr, sid \in ServiceIds, u \in SubIds, q \in QueryIds,
          a \in PaymentInputs : QueryOracleSync(c, sid, u, q, a)
    \/ \E c \in Addr, sid \in ServiceIds, u \in SubIds, q \in QueryIds,
          a \in PaymentInputs : IssueSettlement(c, sid, u, q, a)
    \/ \E i \in 1..MaxInflight : ExecuteSettlement(i)
    \/ \E c \in Addr, q \in QueryIds, d \in DataInputs : IssueSubmission(c, q, d)
    \/ \E i \in 1..MaxInflight : ExecuteSubmission(i)
    \/ \E t \in TimePoints : Tick(t)
    \/ NewEpoch

Spec == Init /\ [][Next]_vars

-----------------------------------------------------------------------------
(* Settlement: services of one provider on the simplified path, their      *)
(* activation and pricing, subscriptions, one query, the clock.            *)

SettleDataInputs == {[result |-> "r1", result_hash |-> "h1", evidence_url |-> "e2"]}

NextSettle ==
    \/ \E p \in {33, 1000} : CreateServiceSimple("alice", p, MIN_COLLATERAL)
    \/ \E sid \in ServiceIds, b \in BOOLEAN : SetActiveEntry("alice", sid, b)
    \/ \E c \in {"alice", "bob"}, sid \in ServiceIds : CreateSubscriptionEntry(c, sid)
    \/ \E u \in SubIds, t \in ValidityInputs : IsSubscriptionValid("carol", u, t)
    \/ CreateQueryEntry("alice", "q1", "alice")
    \/ \E q \in QueryIds, d \in SettleDataInputs : ResolveQueryEntry("alice", q, d)
    \/ \E c \in {"alice", "bob"}, sid \in ServiceIds, u \in SubIds, q \in QueryIds,
          a \in PaymentInputs : QueryOracleSync(c, sid, u, q, a)
    \/ \E t \in TimePoints : Tick(t)
    \/ NewEpoch

SpecSettle == Init /\ [][NextSettle]_vars
-----------------------------------------------------------------------------
(* Claims on settlement.                                                   *)

IsSettle(call) == call.op = "query_oracle_sync"

\* floor(price * 300 / 10000) on the integers
PlatformShare(price) == (price * 300) \div 10000

(* C2: a successful settlement with a payment of value p >= price leaves   *)
(* p - price in the payment, adds exactly the platform fee to the treasury *)
(* and price - platform fee to service.provider; no other balance changes. *)
C2_ExactFundMovement ==
    [][(IsSettle(last') /\ last'.err = OK) =>
          LET c == last'.caller
              price == services[last'.sid].price_per_query
              provider == services[last'.sid].provider
          IN  /\ last'.amount >= price
              /\ last'.coin = last'.amount - price
              /\ treasury'.platform_balance =
                     treasury.platform_balance + PlatformShare(price)
              /\ \A a \in Addr :
                     bal'[a] = bal[a] - (IF a = c THEN price ELSE 0)
                                      + (IF a = provider
                                         THEN price - PlatformShare(price) ELSE 0)
              /\ pool' = pool]_vars

\* price 1000 paid from a coin of 1001: provider +970, treasury 30, 1 left
C2_Witness ==
    /\ IsSettle(last) /\ last.err = OK
    /\ last.caller = "bob" /\ last.amount = 1001 /\ last.coin = 1
    /\ services[last.sid].provider = "alice"
    /\ services[last.sid].total_queries = 1
    /\ Len(records) = 1 /\ records[1].payment = 1000
    /\ treasury.platform_balance = 30
    /\ bal = [a \in Addr |-> IF a = "alice" THEN InitFunds + 970
                             ELSE IF a = "bob" THEN InitFunds - 1000
                             ELSE InitFunds]

\* the six failure conditions of a settlement call, read off the state
\* before the call
ServiceInactive(sid) == ~services[sid].active
SubscriptionLapsed(u) == ~subs[u].active \/ BigLess(subs[u].end_time, clock)
ServiceMismatch(sid, u) == subs[u].service_id # sid
CallerMismatch(c, u) == c # subs[u].subscriber
PaymentShort(sid, a) == a < services[sid].price_per_query
QueryOpen(q) == ~queries[q].resolved

SomeCheckFails(call) ==
    \/ ServiceInactive(call.sid)
    \/ SubscriptionLapsed(call.sub)
    \/ ServiceMismatch(call.sid, call.sub)
    \/ CallerMismatch(call.caller, call.sub)
    \/ PaymentShort(call.sid, call.amount)
    \/ QueryOpen(call.qid)

(* C4: a settlement call that fails one of its six checks leaves the       *)
(* service, the payment, the treasury, every balance and the QueryRecords  *)
(* exactly as they were.                                                   *)
C4_FailedSettlementChangesNothing ==
    [][(IsSettle(last') /\ SomeCheckFails(last')) =>
          /\ last'.err # OK
          /\ last'.coin = last'.amount
          /\ UNCHANGED <<services, bal, treasury, records, pool, subs, queries>>]_vars

\* a call that fails after an earlier settlement has moved funds
C4_Witness ==
    /\ IsSettle(last) /\ last.err = E_INSUFFICIENT_PAYMENT
    /\ Len(records) = 1
    /\ treasury.platform_balance = 30
    /\ services[last.sid].total_queries = 1

(* C5: the error of a settlement call is that of the first failing check   *)
(* in the order service inactive, subscription expired (inactive or past   *)
(* end_time), subscription of another service, caller not the subscriber   *)
(* (reported as expired), insufficient payment, query unresolved.          *)
C5_FirstFailingCheckReported ==
    [][IsSettle(last') =>
          LET call == last'
              c1 == ServiceInactive(call.sid)
              c2 == SubscriptionLapsed(call.sub)
              c3 == ServiceMismatch(call.sid, call.sub)
              c4 == CallerMismatch(call.caller, call.sub)
              c5 == PaymentShort(call.sid, call.amount)
              c6 == QueryOpen(call.qid)
          IN  /\ c1 => call.err = E_SERVICE_INACTIVE
              /\ (~c1 /\ c2) => call.err = E_SUBSCRIPTION_EXPIRED
              /\ (~c1 /\ ~c2 /\ c3) => call.err = E_SUBSCRIPTION_NOT_MATCH
              /\ (~c1 /\ ~c2 /\ ~c3 /\ c4) => call.err = E_SUBSCRIPTION_EXPIRED
              /\ (~c1 /\ ~c2 /\ ~c3 /\ ~c4 /\ c5) =>
                     call.err = E_INSUFFICIENT_PAYMENT
              /\ (~c1 /\ ~c2 /\ ~c3 /\ ~c4 /\ ~c5 /\ c6) =>
                     call.err = E_QUERY_NOT_RESOLVED
              /\ ~SomeCheckFails(call) => call.err = OK]_vars

\* a call that violates the last four checks at once and reports the
\* earliest of them (a failed call leaves the state it was made in)
C5_Witness ==
    /\ IsSettle(last) /\ last.err = E_SUBSCRIPTION_NOT_MATCH
    /\ ~ServiceInactive(last.sid) /\ ~SubscriptionLapsed(last.sub)
    /\ CallerMismatch(last.caller, last.sub)
    /\ PaymentShort(last.sid, last.amount)
    /\ QueryOpen(last.qid)

(* C6: a successful settlement adds 1 to total_queries and to              *)
(* successful_queries of its service; failed settlements and every other   *)
(* operation leave both counters of every service as they are, so N        *)
(* successes add exactly N and the counters never decrease.                *)
C6_CounterAccounting ==
    [][\A sid \in ServiceIds :
          LET d == IF IsSettle(last') /\ last'.err = OK /\ last'.sid = sid
                   THEN 1 ELSE 0
          IN  /\ services'[sid].total_queries = services[sid].total_queries + d
              /\ services'[sid].successful_queries =
                     services[sid].successful_queries + d]_vars

\* two successful settlements against one service
C6_Witness ==
    \E sid \in ServiceIds :
        /\ services[sid].total_queries = 2
        /\ services[sid].successful_queries = 2

\* T + 2,592,000,000 for a subscription taken at T
WindowEnd(u) == BigAdd(subs[u].start_time, <<0, 9200, 25>>)

-----------------------------------------------------------------------------
(* Funds: every operation that moves coins, with the calls that fail.      *)

\* amounts asked of the treasury: all of it, more than it holds, all but 30
FundsWithdrawInputs ==
    {a \in {treasury.platform_balance, treasury.platform_balance + 1,
            treasury.platform_balance - 30} : a >= 0}

NextFunds ==
    \/ \E p \in {0, 1000}, a \in CollateralInputs : CreateServiceSimple("alice", p, a)
    \/ \E p \in {0, 1000}, a \in CollateralInputs : CreateServiceEntry("alice", p, a)
    \/ \E sid \in AnyServiceId, a \in DepositInputs :
          DepositCollateral("bob", sid, a)
    \/ \E c \in {"alice", "bob"}, sid \in ServiceIds, a \in WithdrawInputs :
          WithdrawCollateralEntry(c, sid, a, "carol")
    \/ \E a \in DepositInputs : DepositPlatformFee("bob", a)
    \/ \E c \in {"carol", "bob"}, t \in {THIS_TREASURY, OTHER_TREASURY},
          a \in FundsWithdrawInputs : WithdrawPlatformFunds(c, t, a)
    \/ \E sid \in ServiceIds : CreateSubscriptionEntry("bob", sid)
    \/ CreateQueryEntry("alice", "q1", "alice")
    \/ \E q \in QueryIds, d \in SettleDataInputs : ResolveQueryEntry("alice", q, d)
    \/ \E sid \in ServiceIds, u \in SubIds, q \in QueryIds,
          a \in PaymentInputs : QueryOracleSync("bob", sid, u, q, a)

SpecFunds == Init /\ [][NextFunds]_vars

RECURSIVE SumOver(_, _)
SumOver(f, S) ==
    IF S = {} THEN 0
    ELSE LET x == CHOOSE y \in S : TRUE IN f[x] + SumOver(f, S \ {x})

TotalFunds ==
    SumOver(bal, Addr) + SumOver(pool, DOMAIN pool) + treasury.platform_balance

(* C3: over every sequence of operations (service creation on either path, *)
(* collateral deposit and withdrawal, settlement, treasury deposit and     *)
(* withdrawal, failed calls included) the sum of all account balances, all *)
(* per-service collateral balances and the treasury balance is constant.   *)
C3_FundsConserved == TotalFunds = 3 * InitFunds

\* collateral in the pool, fees in the treasury, and a withdrawal that has
\* just paid part of a joined collateral entry out to a third address
C3_Witness ==
    /\ last.op = "withdraw_collateral_entry" /\ last.err = OK /\ last.to = "carol"
    /\ PoolBalance(last.sid) = MIN_COLLATERAL
    /\ treasury.platform_balance = 30
    /\ bal["carol"] = InitFunds + MIN_COLLATERAL

-----------------------------------------------------------------------------
(* Service management: a provider on each creation path, each of them      *)
(* calling the provider-gated operations on both services.                 *)

NextService ==
    \/ CreateServiceSimple("alice", 33, MIN_COLLATERAL)
    \/ CreateServiceEntry("bob", 33, MIN_COLLATERAL)
    \/ \E c \in {"alice", "bob"}, sid \in ServiceIds, a \in WithdrawInputs :
          WithdrawCollateralEntry(c, sid, a, "carol")
    \/ \E c \in {"alice", "bob"}, sid \in ServiceIds, p \in {0, 1000} :
          UpdatePriceEntry(c, sid, p)
    \/ \E c \in {"alice", "bob"}, sid \in ServiceIds, b \in BOOLEAN :
          SetActiveEntry(c, sid, b)
    \/ \E c \in {"alice", "bob"}, sid \in ServiceIds, x \in ConfigInputs :
          UpdateConfigIdEntry(c, sid, x)
    \/ \E c \in {"alice", "bob"}, sid \in ServiceIds, x \in UrlInputs :
          UpdateDocumentationUrlEntry(c, sid, x)

SpecService == Init /\ [][NextService]_vars

ProviderGatedOps ==
    {"update_price_entry", "set_active_entry", "update_config_id_entry",
     "update_documentation_url_entry", "withdraw_collateral_entry"}

(* C8: a call of update_price, set_active, update_config_id,               *)
(* update_documentation_url or withdraw_collateral by a caller other than  *)
(* service.provider fails with NotProvider and leaves every service, the   *)
(* collateral pool and every balance unchanged; update_price by the        *)
(* provider with new_price <= 0 fails with InvalidPrice and leaves the     *)
(* price unchanged.                                                        *)
C8_ProviderGatingOfService ==
    [][/\ (/\ last'.op \in ProviderGatedOps
           /\ last'.caller # services[last'.sid].provider) =>
              /\ last'.err = E_NOT_PROVIDER
              /\ UNCHANGED <<services, pool, bal>>
       /\ (/\ last'.op = "update_price_entry"
           /\ last'.caller = services[last'.sid].provider
           /\ last'.amount <= 0) =>
              /\ last'.err = E_INVALID_PRICE
              /\ services'[last'.sid].price_per_query =
                     services[last'.sid].price_per_query]_vars

\* a stranger asks for collateral the pool holds for the service and could
\* pay out
C8_Witness ==
    /\ last.op = "withdraw_collateral_entry" /\ last.err = E_NOT_PROVIDER
    /\ last.caller = "alice" /\ services[last.sid].provider = "bob"
    /\ last.amount = MIN_COLLATERAL
    /\ PoolBalance(last.sid) = MIN_COLLATERAL
    /\ services[last.sid].config_id = Some("cfg1")
    /\ ~services[last.sid].active

-----------------------------------------------------------------------------
(* Queries: creation with either address as provider, resolution and       *)
(* update by every caller with every result bundle, across epochs.         *)

NextQuery ==
    \/ \E c \in {"alice", "bob"}, x \in QueryIdInputs, p \in {"alice", "bob"} :
          CreateQueryEntry(c, x, p)
    \/ \E c \in Addr, q \in QueryIds, d \in DataInputs : ResolveQueryEntry(c, q, d)
    \/ \E c \in Addr, q \in QueryIds, d \in DataInputs : UpdateQueryData(c, q, d)
    \/ \E t \in TimePoints : Tick(t)
    \/ NewEpoch

SpecQuery == Init /\ [][NextQuery]_vars

IsResolve(call) == call.op = "resolve_query_entry"
IsUpdate(call) == call.op = "update_query_data"

(* C9 as stated: every resolve or update call whose caller is not          *)
(* query.provider fails with NotProvider and leaves all query fields       *)
(* unchanged, whether the query is unresolved or already resolved.         *)
C9_NotProviderInEveryState ==
    [][((IsResolve(last') \/ IsUpdate(last'))
           /\ last'.caller # queries[last'.qid].provider) =>
          /\ last'.err = E_NOT_PROVIDER
          /\ queries' = queries]_vars

(* C9 amended: every resolve or update call whose caller is not            *)
(* query.provider fails and leaves all query fields unchanged; the error   *)
(* is NotProvider, except for resolve on an already resolved query, which  *)
(* fails with AlreadyResolved (that check comes first).                    *)
C9_ProviderGatingOfQuery ==
    [][((IsResolve(last') \/ IsUpdate(last'))
           /\ last'.caller # queries[last'.qid].provider) =>
          /\ last'.err = IF IsResolve(last') /\ queries[last'.qid].resolved
                         THEN E_QUERY_ALREADY_RESOLVED
                         ELSE E_NOT_PROVIDER
          /\ queries' = queries]_vars

\* a stranger's resolve on a resolved query
C9_Witness ==
    /\ IsResolve(last) /\ last.err = E_QUERY_ALREADY_RESOLVED
    /\ last.caller = "carol" /\ queries[last.qid].provider = "bob"
    /\ queries[last.qid].resolved
    /\ queries[last.qid].result = Some("{}")

(* C10: for the query's provider, resolve succeeds on an unresolved query  *)
(* and fails with AlreadyResolved on a resolved one, leaving the stored    *)
(* result, hash and evidence unchanged; update by the provider always      *)
(* succeeds, before or after resolve, and a resolved query stays resolved. *)
C10_ResolutionGuard ==
    [][/\ (IsResolve(last') /\ last'.caller = queries[last'.qid].provider) =>
              IF ~queries[last'.qid].resolved
              THEN /\ last'.err = OK
                   /\ queries'[last'.qid].resolved
              ELSE /\ last'.err = E_QUERY_ALREADY_RESOLVED
                   /\ queries' = queries
       /\ (IsUpdate(last') /\ last'.caller = queries[last'.qid].provider) =>
              /\ last'.err = OK
              /\ queries'[last'.qid].resolved
       /\ \A q \in QueryIds : queries[q].resolved => queries'[q].resolved]_vars

\* the provider's later resolve with another result is refused, and the
\* result of the first resolve is still stored
C10_Witness ==
    /\ IsResolve(last) /\ last.err = E_QUERY_ALREADY_RESOLVED
    /\ last.caller = queries[last.qid].provider
    /\ last.data = ""
    /\ queries[last.qid].result = Some("r1")
    /\ queries[last.qid].result_hash = Some("h1")
    /\ queries[last.qid].evidence_url = Some("e2")

-----------------------------------------------------------------------------
(* The life of a query: creation, resolution and update by the provider    *)
(* and by another address, transfer, and settlements that read it.         *)

NextQueryLife ==
    \/ CreateServiceSimple("alice", 1000, MIN_COLLATERAL)
    \/ \E sid \in ServiceIds : CreateSubscriptionEntry("bob", sid)
    \/ \E c \in {"alice", "bob"} : CreateQueryEntry(c, "q1", "alice")
    \/ \E c \in {"alice", "bob"}, q \in QueryIds, d \in DataInputs :
          ResolveQueryEntry(c, q, d)
    \/ \E c \in {"alice", "bob"}, q \in QueryIds, d \in DataInputs :
          UpdateQueryData(c, q, d)
    \/ \E c \in Addr, q \in QueryIds, r \in {"alice", "carol"} : TransferQuery(c, q, r)
    \/ \E sid \in ServiceIds, u \in SubIds, q \in QueryIds :
          QueryOracleSync("bob", sid, u, q, 1000)

SpecQueryLife == Init /\ [][NextQueryLife]_vars

(* C11: a query is created with resolved = false; every successful resolve *)
(* or update, an update of a never-resolved query included, leaves         *)
(* resolved = true; a query that is resolved is resolved in every later    *)
(* state, whatever operation follows (update, failed resolve, settlement,  *)
(* transfer).                                                              *)
C11_ResolvedIsOneWay ==
    [][/\ last'.op = "create_query_entry" => ~queries'[last'.qid].resolved
       /\ ((IsResolve(last') \/ IsUpdate(last')) /\ last'.err = OK) =>
              queries'[last'.qid].resolved
       /\ \A q \in QueryIds : queries[q].resolved => queries'[q].resolved]_vars

\* a resolved query that has been settled against and then transferred
C11_Witness ==
    /\ last.op = "transfer_query" /\ last.to = "carol"
    /\ queries[last.qid].resolved
    /\ queries[last.qid].result = Some("{}")
    /\ queries[last.qid].owner = "carol"
    /\ Len(records) = 1

-----------------------------------------------------------------------------
(* Claims on the custody of collateral and of the treasury.                *)

\* the balance the pool holds for sid after the step
PoolBalanceAfter(sid) == IF sid \in DOMAIN pool' THEN pool'[sid] ELSE 0

(* C12: the balance the pool records for a service id grows only through   *)
(* the deposit made for that id at the creation of that service, shrinks   *)
(* only through a withdrawal called by the provider recorded in that       *)
(* service, by no more than the balance, and is never negative; no other   *)
(* caller or operation changes it.                                         *)
C12_PoolCustody ==
    [][\A sid \in (DOMAIN pool) \cup (DOMAIN pool') :
          /\ PoolBalanceAfter(sid) >= 0
          /\ PoolBalanceAfter(sid) > PoolBalance(sid) =>
                 /\ last'.op = "create_service_entry" /\ last'.err = OK
                 /\ last'.sid = sid /\ sid \notin ServiceIds
          /\ PoolBalanceAfter(sid) < PoolBalance(sid) =>
                 /\ last'.op = "withdraw_collateral_entry" /\ last'.err = OK
                 /\ last'.sid = sid
                 /\ last'.caller = services[sid].provider
                 /\ last'.amount <= PoolBalance(sid)]_vars

\* a call of withdraw_collateral_entry that reaches the pool's withdraw_collateral
ReachesPoolWithdraw(call) ==
    /\ call.op = "withdraw_collateral_entry"
    /\ call.caller = services[call.sid].provider

(* C13: a withdrawal for a service id without pool entry fails with        *)
(* CollateralNotFound; with an entry and amount above its balance it fails *)
(* with InsufficientBalance; both leave the pool unchanged.  A successful  *)
(* withdrawal shrinks the entry of that id by exactly amount, delivers     *)
(* exactly amount to the recipient and leaves every other entry unchanged. *)
C13_WithdrawalOutcomes ==
    [][ReachesPoolWithdraw(last') =>
          LET sid == last'.sid
              amount == last'.amount
          IN  /\ ~PoolExists(sid) =>
                     /\ last'.err = E_COLLATERAL_NOT_FOUND
                     /\ UNCHANGED <<pool, bal>>
              /\ (PoolExists(sid) /\ amount > pool[sid]) =>
                     /\ last'.err = E_INSUFFICIENT_BALANCE
                     /\ UNCHANGED <<pool, bal>>
              /\ (PoolExists(sid) /\ amount <= pool[sid]) =>
                     /\ last'.err = OK
                     /\ DOMAIN pool' = DOMAIN pool
                     /\ \A k \in DOMAIN pool :
                            pool'[k] = pool[k] - (IF k = sid THEN amount ELSE 0)
                     /\ \A a \in Addr :
                            bal'[a] = bal[a] + (IF a = last'.to THEN amount ELSE 0)]_vars

\* a withdrawal asking for one more than the entry holds, with the entry of
\* another service beside it
C13_Witness ==
    /\ last.op = "withdraw_collateral_entry" /\ last.err = E_INSUFFICIENT_BALANCE
    /\ last.caller = services[last.sid].provider
    /\ last.amount = MIN_COLLATERAL + 1
    /\ PoolBalance(last.sid) = MIN_COLLATERAL
    /\ \E k \in DOMAIN pool : k # last.sid /\ pool[k] = 0

(* C14: the treasury balance grows only by the platform fee of a           *)
(* successful settlement and shrinks only by a withdrawal authorised as    *)
(* admin (the caller is the treasury's admin and presents the admin        *)
(* capability of this treasury) of an amount within the balance; a         *)
(* withdrawal by another caller, with another capability or above the      *)
(* balance fails and leaves the balance unchanged.                         *)
C14_TreasuryCustody ==
    [][LET before == treasury.platform_balance
           after == treasury'.platform_balance
           authorised == /\ last'.caller = treasury.admin
                         /\ last'.data = THIS_TREASURY
       IN  /\ after > before =>
                  /\ IsSettle(last') /\ last'.err = OK
                  /\ after - before =
                         PlatformShare(services[last'.sid].price_per_query)
           /\ after < before =>
                  /\ last'.op = "withdraw_platform_funds" /\ last'.err = OK
                  /\ authorised
                  /\ last'.amount <= before
                  /\ before - after = last'.amount
           /\ (/\ last'.op = "withdraw_platform_funds"
               /\ (~authorised \/ last'.amount > before)) =>
                  /\ last'.err # OK
                  /\ after = before]_vars

-----------------------------------------------------------------------------
(* Claims on service creation.                                             *)

IsCreateService(call) ==
    call.op \in {"create_service_simple", "create_service_entry"}

(* C15: a service creation on either path with price_per_query <= 0 fails  *)
(* with InvalidPrice whatever the collateral, creates no service, adds no  *)
(* pool entry and moves no funds.                                          *)
C15_PriceValidityAtCreation ==
    [][(IsCreateService(last') /\ last'.amount <= 0) =>
          /\ last'.err = E_INVALID_PRICE
          /\ UNCHANGED <<services, pool, bal, treasury>>]_vars

\* a pooled creation with price 0 and a collateral below the minimum
C15_Witness ==
    /\ last.op = "create_service_entry" /\ last.err = E_INVALID_PRICE
    /\ last.amount = 0 /\ last.coin = MIN_COLLATERAL - 1
    /\ Len(services) = 1

(* C16: a service creation on either path with a valid price and a         *)
(* collateral strictly below 10,000,000 fails with InsufficientCollateral  *)
(* and creates no service and no pool entry; a collateral of exactly       *)
(* 10,000,000 is accepted.                                                 *)
C16_CollateralFloorAtCreation ==
    [][(IsCreateService(last') /\ last'.amount > 0) =>
          IF last'.coin < 10000000
          THEN /\ last'.err = E_INSUFFICIENT_COLLATERAL
               /\ UNCHANGED <<services, pool, bal>>
          ELSE /\ last'.err = OK
               /\ Len(services') = Len(services) + 1]_vars

\* 9,999,999 refused on the pooled path after 10,000,000 was accepted
C16_Witness ==
    /\ last.op = "create_service_entry" /\ last.err = E_INSUFFICIENT_COLLATERAL
    /\ last.amount = 1000 /\ last.coin = 9999999
    /\ Len(services) = 1 /\ services[1].collateral = 10000000

(* C17: in every reachable state every existing service has                *)
(* price_per_query > 0: both creation paths establish it, update_price and *)
(* every other operation preserve it.                                      *)
C17_PriceAlwaysPositive ==
    \A sid \in ServiceIds : services[sid].price_per_query > 0

\* the provider's update to 0 was refused on a service whose price had been
\* updated before, beside a service still at its creation price
C17_Witness ==
    /\ last.op = "update_price_entry" /\ last.err = E_INVALID_PRICE
    /\ last.amount = 0
    /\ services[last.sid].price_per_query = 1000
    /\ \E sid \in ServiceIds : services[sid].price_per_query = 33

(* C18: after a successful service creation on either path the new        *)
(* service is shared (any address, not only the creator, can pass it to    *)
(* create_subscription and settlement), has active = true, both counters 0 *)
(* and provider = the creator.                                             *)
C18_NewServiceIsShared ==
    [][(IsCreateService(last') /\ last'.err = OK) =>
          LET service == services'[last'.sid]
          IN  /\ \A a \in Addr : CanPass(a, service.owner)
              /\ service.active
              /\ service.total_queries = 0
              /\ service.successful_queries = 0
              /\ service.provider = last'.caller]_vars

(* C19: after a pooled creation with collateral c the pool's balance for   *)
(* the new service id is exactly c (a fresh entry), the creator's funds    *)
(* are lower by c and service.collateral = c; after a simplified creation  *)
(* the whole collateral is back with the creator, the pool has no entry    *)
(* for the service, and service.collateral records c.                      *)
C19_CustodyPerCreationPath ==
    [][(IsCreateService(last') /\ last'.err = OK) =>
          LET sid == last'.sid
              c == last'.coin
          IN  /\ services'[sid].collateral = c
              /\ IF last'.op = "create_service_entry"
                 THEN /\ sid \in DOMAIN pool' /\ pool'[sid] = c
                      /\ bal' = [bal EXCEPT ![last'.caller] = @ - c]
                 ELSE /\ bal' = bal
                      /\ sid \notin DOMAIN pool']_vars

-----------------------------------------------------------------------------
(* Claims on subscriptions.                                                *)

(* C20: a subscription is created only against a service with active =     *)
(* true (else ServiceInactive), with end_time = start_time + 2,592,000,000, *)
(* active = true and subscriber = the creator; in every later state all    *)
(* its fields are as created: no operation extends end_time, changes       *)
(* subscriber or service_id, or sets active to false.                      *)
C20_SubscriptionImmutable ==
    [][/\ last'.op = "create_subscription_entry" =>
              IF services[last'.sid].active
              THEN /\ last'.err = OK
                   /\ Len(subs') = Len(subs) + 1
                   /\ LET new == subs'[Len(subs')]
                      IN  /\ new.end_time = BigAdd(new.start_time, <<0, 9200, 25>>)
                          /\ new.active
                          /\ new.subscriber = last'.caller
                          /\ new.service_id = last'.sid
              ELSE /\ last'.err = E_SERVICE_INACTIVE
                   /\ subs' = subs
       /\ \A u \in SubIds : subs'[u] = subs[u]]_vars

\* a subscription that is still as created when a settlement, after an
\* earlier successful one, finds it expired
C20_Witness ==
    /\ IsSettle(last) /\ last.err = E_SUBSCRIPTION_EXPIRED
    /\ BigLess(subs[last.sub].end_time, clock)
    /\ subs[last.sub].active
    /\ subs[last.sub].subscriber = "bob"
    /\ subs[last.sub].start_time = <<1>>
    /\ subs[last.sub].end_time = <<1, 9200, 25>>
    /\ services[last.sid].total_queries = 1

-----------------------------------------------------------------------------
(* Claims on the records and the result of a settlement.                   *)

\* the records kept for service sid in the record sequence rs
RecordsOf(rs, sid) == {i \in 1..Len(rs) : rs[i].service_id = sid}

(* C21: a successful settlement creates exactly one QueryRecord {query_id  *)
(* of the query, service_id of the service, requester =                    *)
(* subscription.subscriber, payment = the price charged, query_time =      *)
(* current_time, success = true} owned by the subscriber; a failed one     *)
(* creates none; existing records are never modified; so the number of     *)
(* records of a service always equals its total_queries.                   *)
C21_QueryRecordReceipts ==
    [][/\ IF IsSettle(last') /\ last'.err = OK
          THEN /\ Len(records') = Len(records) + 1
               /\ LET r == records'[Len(records')]
                  IN  /\ r.query_id = queries[last'.qid].query_id
                      /\ r.service_id = last'.sid
                      /\ r.requester = subs[last'.sub].subscriber
                      /\ r.payment = services[last'.sid].price_per_query
                      /\ r.query_time = clock
                      /\ r.success
                      /\ r.owner = subs[last'.sub].subscriber
          ELSE Len(records') = Len(records)
       /\ \A i \in 1..Len(records) : records'[i] = records[i]
       /\ \A sid \in 1..Len(services') :
              Cardinality(RecordsOf(records', sid)) = services'[sid].total_queries]_vars

\* a second receipt, written at the last instant of the subscription, beside
\* the untouched first one
C21_Witness ==
    /\ IsSettle(last) /\ last.err = OK
    /\ Len(records) = 2
    /\ records[1].query_time = <<1>>
    /\ records[2].query_time = <<1, 9200, 25>>
    /\ records[2].requester = "bob" /\ records[2].payment = 33
    /\ epoch_ts = <<1>>

-----------------------------------------------------------------------------
(* Concurrent settlements: settlements against the services of one         *)
(* provider are built while others are pending, and executed in any order. *)

NextConcurrent ==
    \/ CreateServiceSimple("alice", 1000, MIN_COLLATERAL)
    \/ \E sid \in ServiceIds, b \in BOOLEAN : SetActiveEntry("alice", sid, b)
    \/ \E sid \in ServiceIds : CreateSubscriptionEntry("bob", sid)
    \/ CreateQueryEntry("alice", "q1", "alice")
    \/ \E q \in QueryIds, d \in SettleDataInputs : ResolveQueryEntry("alice", q, d)
    \/ \E sid \in ServiceIds, u \in SubIds, q \in QueryIds, a \in {32, 1000} :
          IssueSettlement("bob", sid, u, q, a)
    \/ \E i \in 1..MaxInflight : ExecuteSettlement(i)

SpecConcurrent == Init /\ [][NextConcurrent]_vars

\* 1 for an executed transaction that succeeded, 0 otherwise
Succeeded(i) == IF inflight[i].status = "done" /\ inflight[i].err = OK THEN 1 ELSE 0

\* two settlements against one service, the second built while the first
\* was pending, both executed
ConcurrentPair(i, j) ==
    /\ i \in inflight[j].rivals
    /\ inflight[i].op = "query_oracle_sync" /\ inflight[j].op = "query_oracle_sync"
    /\ inflight[i].sid = inflight[j].sid
    /\ inflight[i].status = "done" /\ inflight[j].status = "done"

\* the settlements executed since transaction j was built: those pending
\* then, those built later, and j itself
ExecutedSince(j) ==
    {k \in 1..Len(inflight) :
        /\ inflight[k].op = "query_oracle_sync"
        /\ inflight[k].status = "done" /\ inflight[k].err = OK
        /\ (k \in inflight[j].rivals \/ k >= j)}

\* what address a has gained through the successful settlement k
GainOf(a, k) ==
    LET price == services[inflight[k].sid].price_per_query
    IN  (IF a = services[inflight[k].sid].provider
         THEN price - PlatformShare(price) ELSE 0)
        - (IF a = inflight[k].caller THEN price ELSE 0)

(* C22: settlements issued concurrently take effect one after the other:   *)
(* at any time the state is the one their sender observed when building    *)
(* a settlement plus the whole effect of every settlement executed since.  *)
(* When two concurrent settlements against a service both succeed, the     *)
(* counters are +2, the treasury holds both platform fees, the provider    *)
(* both provider fees, and there are two more records (no lost update).    *)
C22_ConcurrentSettlementsSerialize ==
    \A j \in 1..Len(inflight) :
        LET seen == inflight[j].seen
            sid == inflight[j].sid
            since == ExecutedSince(j)
            onService == {k \in since : inflight[k].sid = sid}
        IN  /\ services[sid].total_queries =
                   seen.total_queries + Cardinality(onService)
            /\ services[sid].successful_queries =
                   seen.successful_queries + Cardinality(onService)
            /\ treasury.platform_balance =
                   seen.platform_balance +
                   SumOver([k \in since |->
                              PlatformShare(services[inflight[k].sid].price_per_query)],
                           since)
            /\ \A a \in Addr :
                   bal[a] = seen.bal[a] + SumOver([k \in since |-> GainOf(a, k)], since)
            /\ Len(records) = seen.records + Cardinality(since)

\* two concurrent settlements against one service, both successful
C22_Witness ==
    /\ Len(inflight) = 2
    /\ ConcurrentPair(1, 2)
    /\ Succeeded(1) + Succeeded(2) = 2
    /\ services[inflight[1].sid].total_queries = 2
    /\ treasury.platform_balance = 60
    /\ bal["alice"] = InitFunds + 1940

-----------------------------------------------------------------------------
(* Claims on what a settlement reads and what it leaves alone.             *)

IsWithdrawCollateral(call) == call.op = "withdraw_collateral_entry"

(* C27: a successful withdraw_collateral takes the amount off the pool      *)
(* balance of that service id and adds it to the recipient's funds; the    *)
(* other pool balances, the other addresses' funds, every field of every   *)
(* service, the treasury, subscriptions, queries and records are           *)
(* unchanged.  So service.collateral shows the amount recorded at creation *)
(* in every state, also when the locked balance is 0 and the service is    *)
(* active and settled against.                                             *)
C27_WithdrawalFrame ==
    [][/\ (IsWithdrawCollateral(last') /\ last'.err = OK) =>
              LET sid == last'.sid
              IN  /\ services' = services
                  /\ PoolBalanceAfter(sid) = PoolBalance(sid) - last'.amount
                  /\ DOMAIN pool' = DOMAIN pool
                  /\ \A s \in AnyServiceId \ {sid} :
                         PoolBalanceAfter(s) = PoolBalance(s)
                  /\ \A a \in Addr :
                         bal'[a] = bal[a] + (IF a = last'.to THEN last'.amount ELSE 0)
                  /\ <<treasury', admin_cap', subs', queries', records'>> =
                         <<treasury, admin_cap, subs, queries, records>>
       /\ \A sid \in ServiceIds :
              /\ services'[sid].collateral = services[sid].collateral
              /\ services'[sid].collateral >= MIN_COLLATERAL]_vars

\* a successful settlement against an active shared service whose locked
\* balance was withdrawn down to 0 while service.collateral shows the minimum
C27_Witness ==
    /\ IsSettle(last) /\ last.err = OK
    /\ services[last.sid].active /\ services[last.sid].owner = "shared"
    /\ services[last.sid].collateral = MIN_COLLATERAL
    /\ PoolExists(last.sid) /\ PoolBalance(last.sid) = 0
    /\ bal["carol"] = InitFunds + MIN_COLLATERAL

\* The treasury: fees come in, every address tries to withdraw with the
\* capability it holds or with one of another treasury, the capability
\* moves from holder to holder.
NextTreasury ==
    \/ \E a \in DepositInputs : DepositPlatformFee("bob", a)
    \/ \E c \in Addr, t \in {THIS_TREASURY, OTHER_TREASURY},
          a \in FundsWithdrawInputs : WithdrawPlatformFunds(c, t, a)
    \/ \E c \in Addr, r \in Addr : TransferAdminCap(c, r)

SpecTreasury == Init /\ [][NextTreasury]_vars

\* the ledger does not stop: a transaction that can be executed is executed
SpecTreasuryLive == SpecTreasury /\ WF_vars(NextTreasury)

IsTreasuryWithdraw(call) == call.op = "withdraw_platform_funds"
CapAway == admin_cap.owner # treasury.admin

(* C28, as claimed: from the moment the capability is with an address      *)
(* other than the admin, no withdrawal ever succeeds again.                *)
C28_LockedAfterTransfer ==
    [](CapAway => [](~(IsTreasuryWithdraw(last) /\ last.err = OK)))

(* C28: treasury.admin is the address fixed at create_treasury in every     *)
(* state; a withdrawal succeeds only for a caller who presents the         *)
(* capability of this treasury, which only its holder can, and who is the  *)
(* admin.  While the capability is held by an address other than the       *)
(* admin every withdrawal fails with NotAdmin and the balance does not     *)
(* shrink; the holder alone moves the capability, back to the admin too.   *)
C28_TreasuryWithdrawGate ==
    [][/\ treasury'.admin = TREASURY_ADMIN
       /\ admin_cap'.treasury_id = THIS_TREASURY
       /\ (IsTreasuryWithdraw(last') /\ last'.err = OK) =>
              /\ last'.data = THIS_TREASURY
              /\ last'.caller = admin_cap.owner
              /\ last'.caller = treasury.admin
       /\ CapAway =>
              /\ IsTreasuryWithdraw(last') => last'.err = E_NOT_ADMIN
              /\ treasury'.platform_balance >= treasury.platform_balance
       /\ admin_cap'.owner # admin_cap.owner =>
              /\ last'.op = "transfer_admin_cap"
              /\ last'.caller = admin_cap.owner
              /\ admin_cap'.owner = last'.to]_vars

\* the holder of the capability, who is not the admin, asks for funds the
\* treasury has and is refused
C28_Witness ==
    /\ IsTreasuryWithdraw(last) /\ last.err = E_NOT_ADMIN
    /\ last.data = THIS_TREASURY
    /\ last.caller = "bob" /\ admin_cap.owner = "bob"
    /\ treasury.platform_balance >= last.amount
    /\ last.amount > 0

(* C29: of the query a settlement checks resolved and nothing else: a call  *)
(* succeeds exactly when the service is active, the subscription is live,  *)
(* names the service and belongs to the caller, the payment covers the     *)
(* price and the query is resolved, whoever the query's provider and       *)
(* creator are; the provider of the service is paid the price less the     *)
(* platform fee, the provider of the query nothing.                        *)
C29_QueryNotBoundToService ==
    [][IsSettle(last') =>
          LET sid == last'.sid
              q == last'.qid
              price == services[sid].price_per_query
              paid == price - PlatformShare(price)
          IN  /\ last'.err = OK <=>
                     /\ ~ServiceInactive(sid)
                     /\ ~SubscriptionLapsed(last'.sub)
                     /\ ~ServiceMismatch(sid, last'.sub)
                     /\ ~CallerMismatch(last'.caller, last'.sub)
                     /\ ~PaymentShort(sid, last'.amount)
                     /\ queries[q].resolved
              /\ last'.err = OK =>
                     \A a \in Addr \ {last'.caller} :
                         bal'[a] = bal[a] + (IF a = services[sid].provider
                                             THEN paid ELSE 0)]_vars

\* a settlement against alice's service with a query whose provider is
\* carol: alice is paid, carol is not
C29_Witness ==
    /\ IsSettle(last) /\ last.err = OK
    /\ services[last.sid].provider = "alice"
    /\ queries[last.qid].provider = "carol"
    /\ queries[last.qid].creator = "bob"
    /\ bal["alice"] = InitFunds + 970
    /\ bal["carol"] = InitFunds

(* C30: a successful settlement leaves the subscription and the query as   *)
(* they were, so the six checks pass again for the same caller, service,   *)
(* subscription, query and payment in the state it leaves (while the clock *)
(* and the active flag stay, the call can be repeated); each success takes *)
(* price_per_query from the payer once, adds 1 to both counters and hands  *)
(* out one more QueryRecord with the query's query_id.                     *)
C30_SettlementIsRepeatable ==
    [][\A c \in Addr, sid \in ServiceIds, u \in SubIds, q \in QueryIds,
         a \in PaymentInputs :
          (/\ IsSettle(last') /\ last'.err = OK
           /\ last'.caller = c /\ last'.sid = sid /\ last'.sub = u
           /\ last'.qid = q /\ last'.amount = a) =>
              /\ subs' = subs
              /\ queries' = queries
              /\ SettleError(c, sid, u, q, a)' = OK
              /\ last'.coin = a - services[sid].price_per_query
              /\ services'[sid].total_queries = services[sid].total_queries + 1
              /\ services'[sid].successful_queries =
                     services[sid].successful_queries + 1
              /\ Len(records') = Len(records) + 1
              /\ records'[Len(records')].query_id = queries[q].query_id
              /\ records'[Len(records')].payment = services[sid].price_per_query]_vars

\* the second success of one triple: two records with the same query_id,
\* service and requester, both counters at 2, the price paid twice
C30_Witness ==
    /\ IsSettle(last) /\ last.err = OK
    /\ Len(records) = 2
    /\ records[1].query_id = records[2].query_id
    /\ records[1].service_id = last.sid /\ records[2].service_id = last.sid
    /\ records[1].requester = "bob" /\ records[2].requester = "bob"
    /\ Len(subs) = 1 /\ Len(queries) = 1
    /\ services[last.sid].total_queries = 2
    /\ services[last.sid].successful_queries = 2
    /\ bal["bob"] = InitFunds - 2 * services[last.sid].price_per_query

\* what resolve and update store for a submitted result and hash
StoredResult(submitted) == IF submitted = "" THEN "{}" ELSE submitted
StoredHash(submitted) == submitted

\* A service with collateral in the pool whose provider edits it, queries
\* of two providers, and a subscriber who settles.
NextFrame ==
    \/ CreateServiceSimple("alice", 1000, MIN_COLLATERAL)
    \/ \E sid \in ServiceIds : DepositCollateral("alice", sid, MIN_COLLATERAL)
    \/ \E sid \in ServiceIds : UpdatePriceEntry("alice", sid, 33)
    \/ \E sid \in ServiceIds, cfg \in ConfigInputs :
          UpdateConfigIdEntry("alice", sid, cfg)
    \/ \E sid \in ServiceIds, url \in UrlInputs :
          UpdateDocumentationUrlEntry("alice", sid, url)
    \/ \E sid \in ServiceIds : CreateSubscriptionEntry("bob", sid)
    \/ \E provider \in {"alice", "carol"} : CreateQueryEntry("bob", "q1", provider)
    \/ \E c \in {"alice", "carol"}, q \in QueryIds, d \in SettleDataInputs :
          ResolveQueryEntry(c, q, d)
    \/ \E sid \in ServiceIds, u \in SubIds, q \in QueryIds :
          QueryOracleSync("bob", sid, u, q, 1000)

SpecFrame == Init /\ [][NextFrame]_vars

\* the service with its two counters blanked
WithoutCounters(service) ==
    [service EXCEPT !.total_queries = 0, !.successful_queries = 0]

(* C24: a successful settlement leaves the subscription, the query, the    *)
(* collateral pool, the admin capability and the treasury's admin as they  *)
(* were, and of the service it changes the two counters only: provider,    *)
(* price_per_query, active, collateral, config_id and documentation_url    *)
(* keep their values, and no other service changes.  Balances other than   *)
(* the payer's and the provider's, and the records already handed out, are *)
(* unchanged too.                                                          *)
C24_SettlementFrame ==
    [][(IsSettle(last') /\ last'.err = OK) =>
          LET sid == last'.sid
          IN  /\ subs' = subs
              /\ queries' = queries
              /\ pool' = pool
              /\ admin_cap' = admin_cap
              /\ treasury'.admin = treasury.admin
              /\ Len(services') = Len(services)
              /\ \A s \in ServiceIds : s # sid => services'[s] = services[s]
              /\ WithoutCounters(services'[sid]) = WithoutCounters(services[sid])
              /\ \A a \in Addr \ {last'.caller, services[sid].provider} :
                     bal'[a] = bal[a]
              /\ SubSeq(records', 1, Len(records)) = records
              /\ <<clock', epoch_ts'>> = <<clock, epoch_ts>>]_vars

\* a settled service that has a configuration, a documentation url,
\* a changed price and collateral in the pool
C24_Witness ==
    /\ IsSettle(last) /\ last.err = OK
    /\ services[last.sid].config_id = Some("cfg1")
    /\ services[last.sid].documentation_url = Some("url1")
    /\ services[last.sid].price_per_query = 33
    /\ services[last.sid].successful_queries = 1
    /\ PoolExists(last.sid) /\ PoolBalance(last.sid) = MIN_COLLATERAL
    /\ queries[last.qid].resolved

\* a call that needs the service active
NeedsActive(call) == call.op = "create_subscription_entry" \/ IsSettle(call)

(* C25, as claimed: once a service is inactive it is inactive in every     *)
(* later state.                                                            *)
C25_DeactivationIsTerminal ==
    [][\A sid \in ServiceIds : ~services[sid].active => ~services'[sid].active]_vars

(* C25: a service is never deleted; a successful set_active(b) leaves      *)
(* active = b, for b = true on a deactivated service too; the flag changes *)
(* in no other way, so a deactivated service stays inactive until its      *)
(* provider reactivates it; create_subscription and settlement against a   *)
(* service that is inactive fail with ServiceInactive.                     *)
C25_DeactivationUntilReactivated ==
    [][/\ Len(services') >= Len(services)
       /\ \A sid \in ServiceIds :
              /\ services'[sid].provider = services[sid].provider
              /\ services'[sid].active # services[sid].active =>
                     /\ last'.op = "set_active_entry" /\ last'.err = OK
                     /\ last'.sid = sid
                     /\ last'.caller = services[sid].provider
       /\ (last'.op = "set_active_entry" /\ last'.err = OK) =>
              services'[last'.sid].active = last'.flag
       /\ (NeedsActive(last') /\ ~services[last'.sid].active) =>
              last'.err = E_SERVICE_INACTIVE]_vars

\* a settlement refused by a service that was settled once and then
\* deactivated
C25_Witness ==
    /\ IsSettle(last) /\ last.err = E_SERVICE_INACTIVE
    /\ ~services[last.sid].active
    /\ services[last.sid].successful_queries = 1

\* Submissions of oracle data by the provider and by another address, in
\* flight together, for a query that is open or already resolved.
NextSubmit ==
    \/ CreateQueryEntry("bob", "q1", "alice")
    \/ \E c \in {"alice", "bob"}, q \in QueryIds, d \in DataInputs :
          IssueSubmission(c, q, d)
    \/ \E i \in 1..MaxInflight : ExecuteSubmission(i)

SpecSubmit == Init /\ [][NextSubmit]_vars

\* the submission in place i is executed by this step
Executes(i) ==
    /\ i \in PendingTxs
    /\ inflight'[i].status = "done"

(* C26: a submission built by the query's provider after observing the     *)
(* resolved flag succeeds when it is executed, and leaves the query         *)
(* resolved with the submitted result, whatever the state of the query and  *)
(* whatever was executed since the observation.                             *)
C26_SubmissionAlwaysSucceeds ==
    [][\A i \in 1..Len(inflight) :
          (Executes(i) /\ inflight[i].caller = queries[inflight[i].qid].provider) =>
              /\ inflight'[i].err = OK
              /\ queries'[inflight[i].qid].resolved
              /\ queries'[inflight[i].qid].result =
                     Some(StoredResult(inflight[i].data.result))]_vars

(* C23: in every state a resolved query has a result, a result hash and an *)
(* evidence locator; a successful resolve or update stores "{}" for an     *)
(* empty submitted result and "" (not none) for an empty submitted hash,   *)
(* and the submitted values otherwise; the result view of a successful     *)
(* settlement is the query's query_id, its stored result and hash and the  *)
(* clock's instant.                                                        *)
C23_ResolvedQueriesCarryData ==
    [][/\ \A q \in 1..Len(queries') :
              queries'[q].resolved =>
                  /\ queries'[q].result # None
                  /\ queries'[q].result_hash # None
                  /\ queries'[q].evidence_url # None
       /\ ((IsResolve(last') \/ IsUpdate(last')) /\ last'.err = OK) =>
              /\ queries'[last'.qid].result = Some(StoredResult(last'.data))
              /\ queries'[last'.qid].result_hash = Some(StoredHash(last'.hash))
       /\ (IsSettle(last') /\ last'.err = OK) =>
              last'.ret = [query_id |-> queries[last'.qid].query_id,
                           result |-> queries[last'.qid].result[1],
                           result_hash |-> queries[last'.qid].result_hash[1],
                           query_time |-> clock]]_vars

\* a settlement that returns the "{}" an update stored over an earlier "r1"
C23_Witness ==
    /\ last.op = "query_oracle_sync" /\ last.err = OK
    /\ last.ret.result = "{}" /\ last.ret.result_hash = ""
    /\ queries[last.qid].result = Some("{}")
    /\ queries[last.qid].updated_at = epoch_ts
    /\ Len(records) = 2

-----------------------------------------------------------------------------
(* The fee split alone, over fees of the whole u64 range.                  *)

FeeSmallMax == 70

\* the largest fee whose product with PLATFORM_FEE_BPS fits u64, and the next
FeeLimit == <<5172, 1236, 1469, 1489, 6>>
FeeInputs ==
    {BigOfNat(n) : n \in 1..FeeSmallMax} \cup
    {BigOfNat(n) : n \in {9999, 10000, 10001, 1000000, 999999999}} \cup
    {BigSub(FeeLimit, BigOfNat(1)), FeeLimit, BigAdd(FeeLimit, BigOfNat(1)),
     BigSub(U64_MAX, BigOfNat(1)), U64_MAX}

InitFee ==
    /\ bal = [a \in Addr |-> InitFunds]
    /\ services = <<>>
    /\ pool = <<>>
    /\ treasury = [platform_balance |-> 0, admin |-> TREASURY_ADMIN]
    /\ admin_cap = [treasury_id |-> THIS_TREASURY, owner |-> TREASURY_ADMIN]
    /\ subs = <<>>
    /\ queries = <<>>
    /\ records = <<>>
    /\ clock = StartTime
    /\ epoch_ts = StartTime
    /\ last = NoCall
    /\ fee_arg \in FeeInputs
    /\ inflight = <<>>

\* lines "let fee = service.price_per_query" .. "let provider_fee" of a
\* settlement whose six asserts have passed
ComputeFeeSplit ==
    /\ last.op = "init"
    /\ LET r == FeeSplit(fee_arg)
       IN  last' = [NoCall EXCEPT !.op = "fee_split", !.err = r.err, !.ret = r]
    /\ UNCHANGED <<bal, services, pool, treasury, admin_cap, subs, queries,
                   records, clock, epoch_ts, fee_arg, inflight>>

NextFee == ComputeFeeSplit

SpecFee == InitFee /\ [][NextFee]_vars

(* C1: a settlement that passes its checks computes, for every fee of the  *)
(* u64 range, platform_fee = floor(fee * 300 / 10000) and provider_fee =   *)
(* fee - platform_fee, so that the two add up to the fee.                  *)
C1_FeeSplitWholeRange ==
    last.op = "fee_split" =>
        /\ last.err = OK
        /\ BigLe(BigMulSmall(last.ret.platform_fee, 10000),
                 BigMulSmall(fee_arg, 300))
        /\ BigLess(BigMulSmall(fee_arg, 300),
                   BigMulSmall(BigAdd(last.ret.platform_fee, BigOfNat(1)), 10000))
        /\ BigAdd(last.ret.platform_fee, last.ret.provider_fee) = fee_arg

====
